---- MODULE Spec2Model ----
(***************************************************************************)
(* Model of pp_bins_grouped_plot.py: the bin allocator allocate_to_bins    *)
(* and the table builder build_harmonized_table (with the part of main     *)
(* that writes the table).                                                 *)
(*                                                                         *)
(* Percentages are Python floats in the source.  They are modelled as      *)
(* exact rationals <<n, d>> (d > 0, lowest terms), so the model describes  *)
(* the arithmetic the code asks for and abstracts from IEEE-754 rounding   *)
(* (errors of the order of 1e-14 on the values at hand).                   *)
(***************************************************************************)
EXTENDS Integers, Sequences, FiniteSets

VARIABLES
    reported_ranges,  \* allocate_to_bins: the argument, a list of dicts
    k,                \* allocate_to_bins: position of the for loop (1-based)
    out,              \* allocate_to_bins: the dict name -> accumulated value
    total,            \* allocate_to_bins: the local total (line 60)
    pc,               \* allocate_to_bins: control point
    df_in,            \* build_harmonized_table: the input rows
    i,                \* build_harmonized_table: position of the iterrows loop
    rows,             \* build_harmonized_table: the list rows
    table,            \* main: df_h, the returned table (NoTable before)
    csv_written,      \* main: whether df_h.to_csv has run
    tpc               \* build_harmonized_table / main: control point

vars == <<reported_ranges, k, out, total, pc, df_in, i, rows, table, csv_written, tpc>>
allocVars == <<reported_ranges, k, out, total, pc>>
tableVars == <<df_in, i, rows, table, csv_written, tpc>>

----------------------------------------------------------------------------
(* Bounds of the model *)

\* longest list of reported ranges of one record
MaxRanges == 3
\* longest batch of records
MaxRecords == 2

----------------------------------------------------------------------------
(* Exact rational arithmetic standing for Python's float arithmetic *)

Abs(n) == IF n < 0 THEN -n ELSE n

RECURSIVE GCD(_, _)
GCD(a, b) == IF b = 0 THEN a ELSE GCD(b, a % b)

\* the rational n/d in lowest terms with a positive denominator
R(n, d) ==
    LET s == IF d < 0 THEN -1 ELSE 1
        g == GCD(Abs(n), Abs(d))
    IN  IF n = 0 THEN <<0, 1>> ELSE <<(s * n) \div g, (s * d) \div g>>

RAdd(x, y) == R(x[1] * y[2] + y[1] * x[2], x[2] * y[2])
RSub(x, y) == R(x[1] * y[2] - y[1] * x[2], x[2] * y[2])
RMul(x, y) ==
    LET c == R(x[1], y[2])
        e == R(y[1], x[2])
    IN  R(c[1] * e[1], c[2] * e[2])
RDiv(x, y) == RMul(x, R(y[2], y[1]))
RLe(x, y) == x[1] * y[2] <= y[1] * x[2]
RLt(x, y) == x[1] * y[2] < y[1] * x[2]
RInt(n) == <<n, 1>>

Max(a, b) == IF a >= b THEN a ELSE b
Min(a, b) == IF a <= b THEN a ELSE b

----------------------------------------------------------------------------
(* Standard bins (lines 30-36) *)

BINS ==
    << [L |-> 4,  U |-> 5,  name |-> "C4-C5"],
       [L |-> 6,  U |-> 10, name |-> "C6-C10"],
       [L |-> 11, U |-> 15, name |-> "C11-C15"],
       [L |-> 16, U |-> 20, name |-> "C16-C20"],
       [L |-> 21, U |-> 40, name |-> "C21-C40"] >>

BinIdx == 1..Len(BINS)
Names == {BINS[j].name : j \in BinIdx}

\* out = {name: 0.0 for _, _, name in bins}  (line 43)
ZeroOut == [n \in Names |-> RInt(0)]

\* max_high = max(h for _, h, _ in bins)  (line 44)
max_high == CHOOSE h \in {BINS[j].U : j \in BinIdx} : \A j \in BinIdx : BINS[j].U <= h

----------------------------------------------------------------------------
(* JSON values as json.loads returns them.  A value is [t, v]: t is its    *)
(* Python type ("num": int or float, "numstr": a str holding a numeral     *)
(* such as "6", "str": any other str, "bool", "null": None, "absent": the  *)
(* key is not in the dict), v its numeric content as a rational.           *)

Num(n, d) == [t |-> "num", v |-> R(n, d)]
NumStr(n) == [t |-> "numstr", v |-> RInt(n)]
Str == [t |-> "str", v |-> RInt(0)]
Bool(b) == [t |-> "bool", v |-> RInt(IF b THEN 1 ELSE 0)]
Null == [t |-> "null", v |-> RInt(0)]
Absent == [t |-> "absent", v |-> RInt(0)]

\* truncation toward zero, as int() of a float
Trunc(x) == IF x[1] >= 0 THEN x[1] \div x[2] ELSE -((-x[1]) \div x[2])

\* ToInt with a lenient conversion: text that is no numeral reads as 0
ToIntLenient(val) ==
    IF val.t \in {"num", "numstr", "bool"}
    THEN [ok |-> TRUE, v |-> Trunc(val.v)]
    ELSE [ok |-> val.t = "str", v |-> 0]

\* int(rr[key])  (line 46): KeyError for a missing key, TypeError for None,
\* ValueError for a str that is no numeral; bool and numeral strings convert
ToInt(val) ==
    IF val.t \in {"num", "numstr", "bool"}
    THEN [ok |-> TRUE, v |-> Trunc(val.v)]
    ELSE [ok |-> FALSE, v |-> 0]

\* float(rr[key])  (line 46)
ToFloat(val) ==
    IF val.t \in {"num", "numstr", "bool"}
    THEN [ok |-> TRUE, v |-> val.v]
    ELSE [ok |-> FALSE, v |-> RInt(0)]

----------------------------------------------------------------------------
(* allocate_to_bins (lines 38-63) *)

\* ClipHigh with the clipping left out
ClipHighNone(b) == b

\* if b > max_high: b = max_high  (lines 47-48)
ClipHigh(b) == IF b > max_high THEN max_high ELSE b

\* Width as a continuous length, without the + 1
WidthExclusive(a, b) == b - a

\* width = (b - a + 1)  (line 51)
Width(a, b) == b - a + 1

\* OverlapCount as a continuous length, without the + 1
OverlapCountExclusive(a, b, L, U) ==
    LET overlap_low == Max(a, L)
        overlap_high == Min(b, U)
    IN  IF overlap_low <= overlap_high THEN overlap_high - overlap_low ELSE 0

\* OverlapCount with the test overlap_low < overlap_high
OverlapCountStrict(a, b, L, U) ==
    LET overlap_low == Max(a, L)
        overlap_high == Min(b, U)
    IN  IF overlap_low < overlap_high THEN overlap_high - overlap_low + 1 ELSE 0

\* OverlapCount without the test of line 56
OverlapCountUnguarded(a, b, L, U) == Min(b, U) - Max(a, L) + 1

\* lines 55-57: the units [a, b] shares with the bin [L, U]; the code adds
\* nothing when overlap_low > overlap_high
OverlapCount(a, b, L, U) ==
    LET overlap_low == Max(a, L)
        overlap_high == Min(b, U)
    IN  IF overlap_low <= overlap_high THEN overlap_high - overlap_low + 1 ELSE 0

\* pct * (overlap_count / width)  (line 58)
Share(pct, overlap_count, width) == RMul(pct, R(overlap_count, width))

\* one iteration of the loop over reported_ranges (lines 45-58) on the
\* accumulators o: ok is FALSE when line 46 raises
AllocRange(o, rr) ==
    LET lo == ToInt(rr.low)
        hi == ToInt(rr.high)
        p  == ToFloat(rr.pct)
    IN  IF ~(lo.ok /\ hi.ok /\ p.ok)
        THEN [ok |-> FALSE, out |-> o]
        ELSE LET a == lo.v
                 b == ClipHigh(hi.v)
                 width == Width(a, b)
             IN  IF a > b \/ width <= 0
                 THEN [ok |-> TRUE, out |-> o]
                 ELSE [ok |-> TRUE,
                       out |-> [n \in Names |->
                           LET bin == CHOOSE j \in BinIdx : BINS[j].name = n
                           IN  RAdd(o[n], Share(p.v, OverlapCount(a, b, BINS[bin].L, BINS[bin].U), width))]]

\* total = sum(out.values())  (line 60)
RECURSIVE SumUpTo(_, _)
SumUpTo(o, j) == IF j = 0 THEN RInt(0) ELSE RAdd(SumUpTo(o, j - 1), o[BINS[j].name])
SumValues(o) == SumUpTo(o, Len(BINS))

\* InWindow with strict comparisons
InWindowOpen(t) == RLt(RInt(99), t) /\ RLt(t, RInt(101)) /\ t /= RInt(0)

\* InWindow without the tolerance: every nonzero total is rescaled
InWindowAny(t) == t /= RInt(0)

\* 99.0 <= total <= 101.0 and total != 0  (line 61)
InWindow(t) == RLe(RInt(99), t) /\ RLe(t, RInt(101)) /\ t /= RInt(0)

\* {k: v * (100.0/total) for k, v in out.items()}  (line 62)
Rescale(o, t) == [n \in Names |-> RMul(o[n], RDiv(RInt(100), t))]

\* lines 60-63
Normalized(o) == LET t == SumValues(o) IN IF InWindow(t) THEN Rescale(o, t) ELSE o

\* the loop of lines 45-58 from position j on
RECURSIVE Accumulate(_, _, _)
Accumulate(o, ranges, j) ==
    IF j > Len(ranges)
    THEN [ok |-> TRUE, out |-> o]
    ELSE LET r == AllocRange(o, ranges[j])
         IN  IF r.ok THEN Accumulate(r.out, ranges, j + 1) ELSE r

\* allocate_to_bins as a function of its argument
AllocateToBins(ranges) ==
    LET acc == Accumulate(ZeroOut, ranges, 1)
    IN  IF acc.ok THEN [ok |-> TRUE, out |-> Normalized(acc.out)] ELSE acc

----------------------------------------------------------------------------
(* Inputs of the allocator *)

RR(low, high, pn, pd) == [low |-> Num(low, 1), high |-> Num(high, 1), pct |-> Num(pn, pd)]

RangeSet ==
    { RR(6, 11, 50, 1), RR(12, 20, 45, 1), RR(21, 40, 5, 1),   \* the docstring's example
      RR(6, 10, 99, 1),      \* exactly one bin, total at the lower edge of the window
      RR(7, 9, 50, 1),       \* inside one bin
      RR(16, 20, 199, 2),    \* 99.5 inside one bin
      RR(30, 50, 4, 1),      \* reaches above max_high
      RR(50, 60, 10, 1),     \* entirely above max_high
      RR(1, 3, 20, 1),       \* entirely below the lowest bin
      RR(2, 6, 12, 1),       \* starts below the lowest bin
      RR(10, 8, 30, 1),      \* low > high
      RR(4, 40, 97, 1),      \* every bin, total outside the window
      RR(11, 15, 101, 1),    \* total at the upper edge of the window
      RR(21, 40, 0, 1) }     \* nothing reported

RECURSIVE SeqsUpTo(_, _)
SeqsUpTo(S, n) ==
    IF n = 0 THEN {<<>>}
    ELSE LET shorter == SeqsUpTo(S, n - 1)
         IN  shorter \cup {Append(s, x) : s \in {t \in shorter : Len(t) = n - 1}, x \in S}

NoTable == [columns |-> <<>>, index |-> <<>>, data |-> <<>>, made |-> FALSE]

TableIdle ==
    /\ df_in = <<>>
    /\ i = 1
    /\ rows = <<>>
    /\ table = NoTable
    /\ csv_written = FALSE
    /\ tpc = "idle"

Init ==
    /\ reported_ranges \in SeqsUpTo(RangeSet, MaxRanges)
    /\ k = 1
    /\ out = ZeroOut
    /\ total = RInt(0)
    /\ pc = "loop"
    /\ TableIdle

\* one pass of the for loop (lines 45-58)
ProcessRange ==
    /\ pc = "loop"
    /\ k <= Len(reported_ranges)
    /\ LET r == AllocRange(out, reported_ranges[k])
       IN  IF r.ok
           THEN out' = r.out /\ k' = k + 1 /\ pc' = pc
           ELSE out' = out /\ k' = k /\ pc' = "error"
    /\ UNCHANGED <<reported_ranges, total>>
    /\ UNCHANGED tableVars

\* line 60, after the loop has ended
SumTotal ==
    /\ pc = "loop"
    /\ k > Len(reported_ranges)
    /\ total' = SumValues(out)
    /\ pc' = "norm"
    /\ UNCHANGED <<reported_ranges, k, out>>
    /\ UNCHANGED tableVars

\* lines 61-63
Normalize ==
    /\ pc = "norm"
    /\ out' = IF InWindow(total) THEN Rescale(out, total) ELSE out
    /\ pc' = "done"
    /\ UNCHANGED <<reported_ranges, k, total>>
    /\ UNCHANGED tableVars

Next == ProcessRange \/ SumTotal \/ Normalize

Spec == Init /\ [][Next]_vars

----------------------------------------------------------------------------
(* build_harmonized_table (lines 65-76) and main (lines 109-111) *)

\* A cell of column ReportedRangesJSON is [kind, items]: "invalid" is text
\* json.loads rejects; "scalar" is JSON that is no array of objects and that
\* the allocator cannot iterate or subscript (5, null, "abc", [1, 2]);
\* "empty_object" is {} ; "array" is an array of objects, its items the
\* dicts with a value (or Absent) for each of low, high, pct.
Cell(kind, items) == [kind |-> kind, items |-> items]

\* json.loads(r["ReportedRangesJSON"])  (line 69)
JsonLoads(cell) ==
    IF cell.kind = "invalid"
    THEN [ok |-> FALSE, value |-> cell]
    ELSE [ok |-> TRUE, value |-> cell]

\* allocate_to_bins(ranges, bins=BINS) on what json.loads returned (line 70):
\* `for rr in reported_ranges` raises TypeError on a scalar and runs no
\* iteration on an empty dict
AllocateValue(value) ==
    IF value.kind = "scalar"
    THEN [ok |-> FALSE, out |-> ZeroOut]
    ELSE AllocateToBins(value.items)

\* AppendRow keyed by Paper: a later record replaces the row of its paper
AppendRowKeyed(rs, row) ==
    IF \E j \in 1..Len(rs) : rs[j].Paper = row.Paper
    THEN [j \in 1..Len(rs) |-> IF rs[j].Paper = row.Paper THEN row ELSE rs[j]]
    ELSE Append(rs, row)

\* rows.append(row)  (line 73)
AppendRow(rs, row) == Append(rs, row)

\* ordered = [name for _, _, name in BINS]  (line 75)
ordered == [j \in BinIdx |-> BINS[j].name]

\* DataFrame.round(3) on one value (line 76): the nearest multiple of 0.001,
\* a tie going to the even one
Round3(x) ==
    LET n == x[1] * 1000
        q == n \div x[2]
        r == n % x[2]
        up == 2 * r > x[2] \/ (2 * r = x[2] /\ q % 2 = 1)
    IN  R(IF up THEN q + 1 ELSE q, 1000)

\* pd.DataFrame(rows).set_index("Paper"), df[ordered].round(3)  (lines 74-76)
Frame(rs) ==
    [columns |-> ordered,
     index |-> [j \in 1..Len(rs) |-> rs[j].Paper],
     data |-> [j \in 1..Len(rs) |-> [c \in BinIdx |-> Round3(rs[j].bucketed[ordered[c]])]],
     made |-> TRUE]

Papers == {"A", "B"}

Obj(low, high, pct) == [low |-> low, high |-> high, pct |-> pct]

Cells ==
    { Cell("array", <<RR(6, 11, 50, 1), RR(12, 20, 45, 1), RR(21, 40, 5, 1)>>),
      Cell("array", <<>>),
      Cell("array", <<RR(6, 10, 99, 1)>>),
      Cell("array", <<RR(4, 40, 97, 1), RR(50, 60, 10, 1)>>),
      Cell("array", <<Obj(NumStr(6), NumStr(10), NumStr(50))>>),      \* "6", "10", "50"
      Cell("array", <<Obj(Bool(TRUE), Num(5, 1), Num(8, 1))>>),       \* "low": true
      Cell("empty_object", <<>>),                                      \* {}
      Cell("invalid", <<>>),
      Cell("scalar", <<>>),
      Cell("array", <<Obj(Num(6, 1), Num(10, 1), Absent)>>),          \* no "pct"
      Cell("array", <<Obj(Str, Num(10, 1), Num(50, 1))>>),            \* "low": "abc"
      Cell("array", <<RR(7, 9, 50, 1), Obj(Num(6, 1), Null, Num(50, 1))>>) }  \* "high": null

Records == [Paper : Papers, cell : Cells]

AllocIdle ==
    /\ reported_ranges = <<>>
    /\ k = 1
    /\ out = ZeroOut
    /\ total = RInt(0)
    /\ pc = "idle"

InitTable ==
    /\ AllocIdle
    /\ df_in \in SeqsUpTo(Records, MaxRecords)
    /\ i = 1
    /\ rows = <<>>
    /\ table = NoTable
    /\ csv_written = FALSE
    /\ tpc = "iter"

\* one pass of the loop over df_in.iterrows() (lines 67-73); an exception
\* of json.loads or of allocate_to_bins leaves build_harmonized_table and main
IterRow ==
    /\ tpc = "iter"
    /\ i <= Len(df_in)
    /\ LET paper == df_in[i].Paper
           loaded == JsonLoads(df_in[i].cell)
           bucketed == AllocateValue(loaded.value)
       IN  IF loaded.ok /\ bucketed.ok
           THEN /\ rows' = AppendRow(rows, [Paper |-> paper, bucketed |-> bucketed.out])
                /\ i' = i + 1
                /\ tpc' = tpc
           ELSE /\ rows' = rows
                /\ i' = i
                /\ tpc' = "error"
    /\ UNCHANGED <<df_in, table, csv_written>>
    /\ UNCHANGED allocVars

\* lines 74-76 and the return to main (line 110); with no rows the frame has
\* no column Paper and set_index raises KeyError
BuildFrame ==
    /\ tpc = "iter"
    /\ i > Len(df_in)
    /\ IF rows = <<>>
       THEN table' = table /\ tpc' = "error"
       ELSE table' = Frame(rows) /\ tpc' = "returned"
    /\ UNCHANGED <<df_in, i, rows, csv_written>>
    /\ UNCHANGED allocVars

\* df_h.to_csv(args.out_csv, index=True)  (line 111)
ToCsv ==
    /\ tpc = "returned"
    /\ csv_written' = TRUE
    /\ tpc' = "written"
    /\ UNCHANGED <<df_in, i, rows, table>>
    /\ UNCHANGED allocVars

NextTable == IterRow \/ BuildFrame \/ ToCsv

SpecTable == InitTable /\ [][NextTable]_vars

----------------------------------------------------------------------------
(* Vocabulary of the properties: carbon-number units as sets *)

Low(rr) == rr.low.v[1]
High(rr) == rr.high.v[1]
Pct(rr) == rr.pct.v

\* the integer units a reported range covers (none when low > high)
Units(rr) == Low(rr)..High(rr)
BinUnits(j) == BINS[j].L..BINS[j].U
AllBinUnits == UNION {BinUnits(j) : j \in BinIdx}
FirstL == BINS[1].L
LastU == BINS[Len(BINS)].U

SharedUnits(rr, j) == Cardinality(Units(rr) \cap BinUnits(j))
UnitsInBins(rr) == Cardinality(Units(rr) \cap AllBinUnits)
UnitsAbove(rr) == Cardinality({u \in Units(rr) : u > LastU})
UnitsBelow(rr) == Cardinality({u \in Units(rr) : u < FirstL})
ReportedWidth(rr) == High(rr) - Low(rr) + 1
ClippedWidth(rr) == Cardinality({u \in Units(rr) : u <= LastU})

\* a ReportedRange of the data model: low <= high, percentage >= 0
IsReportedRange(rr) == Low(rr) <= High(rr) /\ RLe(RInt(0), Pct(rr))

\* the ranges the loop has already been through
Processed == SubSeq(reported_ranges, 1, k - 1)

RECURSIVE SumPct(_, _)
SumPct(ranges, j) == IF j = 0 THEN RInt(0) ELSE RAdd(SumPct(ranges, j - 1), Pct(ranges[j]))

InClosedWindow(t) == RLe(RInt(99), t) /\ RLe(t, RInt(101))

----------------------------------------------------------------------------
(* C1: mass is never created.  For ranges with low <= high and percentage  *)
(* >= 0, the sum of the bin accumulators before normalization is at most   *)
(* the sum of the percentages of the ranges allocated so far, and the      *)
(* total taken at line 60 is at most the sum of all input percentages.     *)
MassNeverCreated ==
    (\A j \in 1..Len(reported_ranges) : IsReportedRange(reported_ranges[j])) =>
        /\ pc = "loop" => RLe(SumValues(out), SumPct(Processed, Len(Processed)))
        /\ pc = "norm" => /\ total = SumValues(out)
                          /\ RLe(total, SumPct(reported_ranges, Len(reported_ranges)))

\* a record of several ranges, one of them losing units, has been summed
MassWitness ==
    /\ pc = "norm"
    /\ Len(reported_ranges) >= 2
    /\ \A j \in 1..Len(reported_ranges) : IsReportedRange(reported_ranges[j])
    /\ \E j \in 1..Len(reported_ranges) : UnitsBelow(reported_ranges[j]) > 0
    /\ RLt(RInt(0), total)
    /\ RLt(total, SumPct(reported_ranges, Len(reported_ranges)))

----------------------------------------------------------------------------
(* C2 *)

InsideBin(rr, j) == BINS[j].L <= Low(rr) /\ Low(rr) <= High(rr) /\ High(rr) <= BINS[j].U

SingleInside == Len(reported_ranges) = 1 /\ \E j \in BinIdx : InsideBin(reported_ranges[1], j)

\* C2 as stated: a single range lying inside one bin gives, in the returned
\* result, exactly its percentage p to that bin and 0 to every other bin.
SingleRangeKeepsP ==
    (pc = "done" /\ SingleInside) =>
        \A j \in BinIdx :
            out[BINS[j].name] = IF InsideBin(reported_ranges[1], j)
                                THEN Pct(reported_ranges[1]) ELSE RInt(0)

\* C2 amended: a single range lying inside one bin gives exactly p to that
\* bin and 0 to the others before normalization; the returned value of that
\* bin is p when p is outside [99, 101] and 100 when p is inside it.
SingleRangeKeepsPOrHundred ==
    SingleInside =>
        \A j \in BinIdx :
            LET p == Pct(reported_ranges[1])
                mine == InsideBin(reported_ranges[1], j)
            IN  /\ pc = "norm" => out[BINS[j].name] = IF mine THEN p ELSE RInt(0)
                /\ pc = "done" =>
                       out[BINS[j].name] = IF ~mine THEN RInt(0)
                                           ELSE IF InClosedWindow(p) THEN RInt(100) ELSE p

\* a range exactly on a bin with p = 99 has been returned as 100
SingleRangeWitness ==
    /\ pc = "done"
    /\ SingleInside
    /\ \E j \in BinIdx :
           /\ Low(reported_ranges[1]) = BINS[j].L
           /\ High(reported_ranges[1]) = BINS[j].U
           /\ Pct(reported_ranges[1]) = RInt(99)
           /\ out[BINS[j].name] = RInt(100)

----------------------------------------------------------------------------
(* C3: for a range with low <= maxHigh < high and p > 0, the part of p of  *)
(* the units above maxHigh is discarded: what the range adds over all bins *)
(* is p times its units inside bins over its reported width high - low + 1,*)
(* which is strictly less than p.                                          *)
ClippedExcessDiscarded ==
    [][ (pc = "loop" /\ k <= Len(reported_ranges)
            /\ Low(reported_ranges[k]) <= LastU /\ LastU < High(reported_ranges[k])
            /\ RLt(RInt(0), Pct(reported_ranges[k])))
        => LET rr == reported_ranges[k]
               added == RSub(SumValues(out'), SumValues(out))
           IN  /\ added = RMul(Pct(rr), R(UnitsInBins(rr), ReportedWidth(rr)))
               /\ RLt(added, Pct(rr)) ]_vars

----------------------------------------------------------------------------
(* C4 *)

\* the overlap unit counts the loop of lines 54-58 computes for one range,
\* summed over the bins (none when the range is skipped at lines 49-53)
RECURSIVE OverlapSum(_, _, _)
OverlapSum(a, b, j) ==
    IF j = 0 THEN 0 ELSE OverlapSum(a, b, j - 1) + OverlapCount(a, b, BINS[j].L, BINS[j].U)

OverlapUnits(rr) ==
    LET a == ToInt(rr.low).v
        b == ClipHigh(ToInt(rr.high).v)
    IN  IF a > b \/ Width(a, b) <= 0 THEN 0 ELSE OverlapSum(a, b, Len(BINS))

\* C4 as stated: for every allocated range with low <= high the overlap unit
\* counts sum to its width minus its units above maxHigh.
UnitsLostOnlyAtCeiling ==
    \A j \in 1..Len(Processed) :
        LET rr == Processed[j]
        IN  Low(rr) <= High(rr) => OverlapUnits(rr) = ReportedWidth(rr) - UnitsAbove(rr)

\* C4 amended: the overlap unit counts sum to the width minus the units
\* above maxHigh minus the units below the lowest bin's lower bound.
UnitsLostAtCeilingOrFloor ==
    \A j \in 1..Len(Processed) :
        LET rr == Processed[j]
        IN  Low(rr) <= High(rr) =>
                OverlapUnits(rr) = ReportedWidth(rr) - UnitsAbove(rr) - UnitsBelow(rr)

\* a range starting below the lowest bin and reaching into it was allocated
UnitsWitness ==
    /\ pc = "loop"
    /\ \E j \in 1..Len(Processed) :
           /\ UnitsBelow(Processed[j]) > 0
           /\ OverlapUnits(Processed[j]) > 0
           /\ RLt(RInt(0), SumValues(out))

----------------------------------------------------------------------------
(* C5: whenever the total taken before normalization is nonzero and lies   *)
(* in [99, 101], endpoints included, every returned bin value is the       *)
(* accumulated value times 100/total, so the returned row sums to 100;     *)
(* when the total is exactly 100 the returned values are the accumulated   *)
(* ones.                                                                   *)
NormalizeRescales ==
    [][ (pc = "norm" /\ total /= RInt(0) /\ InClosedWindow(total))
        => /\ pc' = "done"
           /\ \A n \in Names : out'[n] = RDiv(RMul(out[n], RInt(100)), total)
           /\ SumValues(out') = RInt(100)
           /\ total = RInt(100) => out' = out ]_vars

\* a total at an endpoint of the window or strictly inside it, other than
\* 100, has been rescaled to a row summing to 100
NormalizeWitness ==
    /\ pc = "done"
    /\ InClosedWindow(total)
    /\ total /= RInt(100)
    /\ SumValues(out) = RInt(100)
    /\ Cardinality({n \in Names : out[n] /= RInt(0)}) >= 2

----------------------------------------------------------------------------
(* C6: whenever the total taken before normalization is 0 or lies outside  *)
(* [99, 101], every bin value is returned exactly as accumulated, so the   *)
(* returned row sums to that total; an empty range list returns 0 for      *)
(* every bin.                                                              *)
OutsideWindowUntouched ==
    /\ [][ (pc = "norm" /\ (total = RInt(0) \/ ~InClosedWindow(total)))
           => (pc' = "done" /\ out' = out /\ SumValues(out') = total) ]_vars
    /\ [](pc = "done" /\ reported_ranges = <<>> => \A n \in Names : out[n] = RInt(0))

\* a row summing to 97 has been returned as it was accumulated
OutsideWindowWitness ==
    /\ pc = "done"
    /\ total = RInt(97)
    /\ SumValues(out) = RInt(97)
    /\ Cardinality({n \in Names : out[n] /= RInt(0)}) >= 2

\* the range covers at least one unit of some bin
SharesUnit(rr) == Units(rr) \cap AllBinUnits /= {}

----------------------------------------------------------------------------
(* C7: a range sharing no integer unit with any bin (entirely above        *)
(* maxHigh, entirely below the lowest bin, or with low > high) raises no   *)
(* error and adds 0 to every accumulator: the accumulators are those of    *)
(* the range list without such ranges.                                     *)
UnitlessRangesSkipped ==
    /\ pc /= "error"
    /\ pc = "loop" =>
           LET kept == Accumulate(ZeroOut, SelectSeq(Processed, SharesUnit), 1)
           IN  kept.ok /\ out = kept.out

\* which of the three kinds of the claim a range is ("none" when it shares
\* a unit with a bin)
UnitlessKind(rr) ==
    IF Low(rr) > High(rr) THEN "reversed"
    ELSE IF Low(rr) > LastU THEN "above"
    ELSE IF High(rr) < FirstL THEN "below"
    ELSE "none"

\* two ranges of different kinds of the claim, with positive percentages,
\* have been passed beside a range that was allocated
UnitlessWitness ==
    /\ pc = "norm"
    /\ RLt(RInt(0), total)
    /\ \E j1, j2 \in 1..Len(reported_ranges) :
           /\ UnitlessKind(reported_ranges[j1]) /= "none"
           /\ UnitlessKind(reported_ranges[j2]) /= "none"
           /\ UnitlessKind(reported_ranges[j1]) /= UnitlessKind(reported_ranges[j2])
           /\ RLt(RInt(0), Pct(reported_ranges[j1]))
           /\ RLt(RInt(0), Pct(reported_ranges[j2]))

----------------------------------------------------------------------------
(* C10 *)

\* p x (units shared by the range and bin j) / (width of the range in
\* units, counted up to maxHigh as the allocator does), summed over ranges
RECURSIVE ExpectedAcc(_, _, _)
ExpectedAcc(ranges, j, m) ==
    IF m = 0 THEN RInt(0)
    ELSE LET rr == ranges[m]
             share == IF SharedUnits(rr, j) = 0 THEN RInt(0)
                      ELSE RDiv(RMul(Pct(rr), RInt(SharedUnits(rr, j))), RInt(ClippedWidth(rr)))
         IN  RAdd(ExpectedAcc(ranges, j, m - 1), share)

DocExample == <<RR(6, 11, 50, 1), RR(12, 20, 45, 1), RR(21, 40, 5, 1)>>

DocExampleValues ==
    /\ out["C4-C5"] = RInt(0)
    /\ out["C6-C10"] = R(50 * 5, 6)
    /\ out["C11-C15"] = RAdd(R(50 * 1, 6), R(45 * 4, 9))
    /\ out["C16-C20"] = R(45 * 5, 9)
    /\ out["C21-C40"] = RInt(5)

----------------------------------------------------------------------------
(* Vocabulary of the properties of the table builder *)

FieldsOf(item) == {item.low, item.high, item.pct}

\* a record of the data model: an array of objects whose low, high and pct
\* are JSON numbers
WellFormedCell(cell) ==
    /\ cell.kind = "array"
    /\ \A j \in 1..Len(cell.items) : \A f \in FieldsOf(cell.items[j]) : f.t = "num"

\* malformed in the words of C8: invalid structure, a missing field, or a
\* value that is not a number
MalformedCell(cell) == ~WellFormedCell(cell)

\* what json.loads, the iteration and int()/float() cannot take: text that
\* is not JSON, JSON that is neither an array of objects nor {}, a missing
\* field, null, a string that is no numeral
UndecodableCell(cell) ==
    \/ cell.kind \in {"invalid", "scalar"}
    \/ /\ cell.kind = "array"
       /\ \E j \in 1..Len(cell.items) :
              \E f \in FieldsOf(cell.items[j]) : f.t \in {"absent", "null", "str"}

NoTableMade == ~table.made /\ ~csv_written /\ tpc \in {"iter", "error"}

Ended == tpc \in {"error", "returned", "written"}

----------------------------------------------------------------------------
(* C9 *)

WellFormedAll == \A j \in 1..Len(df_in) : WellFormedCell(df_in[j].cell)

\* one row per record in input order, the columns the bin labels in order
TableShape ==
    /\ table.made
    /\ table.columns = <<"C4-C5", "C6-C10", "C11-C15", "C16-C20", "C21-C40">>
    /\ Len(table.data) = Len(df_in)
    /\ Len(table.index) = Len(df_in)
    /\ \A j \in 1..Len(df_in) : table.index[j] = df_in[j].Paper

\* the allocator's result for record j alone, in bin c
Alone(j, c) == AllocateToBins(df_in[j].cell.items).out[BINS[c].name]

\* v is x rounded to 3 decimals: a multiple of 0.001 at most 0.0005 from x
IsRounded3(v, x) ==
    /\ 1000 % v[2] = 0
    /\ RLe(RSub(v, x), R(1, 2000))
    /\ RLe(RSub(x, v), R(1, 2000))

====
